---------------------------- MODULE Spec2Model ----------------------------
(***************************************************************************)
(* A model of the legal document analyzer (src/google_legal_analyzer.py,   *)
(* src/main.py): the Flask route /api/analyze, the orchestrator            *)
(* analyze_document, the classifier _detect_document_type, the template    *)
(* registry _get_document_template, the prompt synthesizer                 *)
(* _create_analysis_prompt and the response parser _parse_ai_response.     *)
(*                                                                         *)
(* Representation of Python values.                                        *)
(*   - A str that the code inspects character by character (a model        *)
(*     reply, a document-type label, a dict key) is a sequence of          *)
(*     one-character strings: "nda" is <<"n","d","a">>.                    *)
(*   - A document text, which may be tens of thousands of characters long, *)
(*     is held run-length encoded: a sequence of runs [c |-> ch, n |-> k]  *)
(*     with k >= 1 and adjacent runs of different characters, so that      *)
(*     equal texts have equal encodings.                                   *)
(*   - A str literal that the code only passes around (a field name, a     *)
(*     hint, a focus description) is a TLA+ string.                        *)
(*   - A value held in a result dict is tagged: [kind |-> "str" | "int" |  *)
(*     "null" | "list" | "dict", val |-> ...]; a dict is a function from   *)
(*     its keys to tagged values.                                          *)
(***************************************************************************)
EXTENDS Integers, Sequences, FiniteSets, TLC

(* x = e followed by the code that reads x: the value is computed once and named. *)
With(e, F(_)) == F(e)

(* The eighteen document-type labels, as Python strings (sequences of characters). *)
contract == <<"c","o","n","t","r","a","c","t">>
nda == <<"n","d","a">>
will == <<"w","i","l","l">>
lease == <<"l","e","a","s","e">>
employment == <<"e","m","p","l","o","y","m","e","n","t">>
partnership == <<"p","a","r","t","n","e","r","s","h","i","p">>
power_of_attorney == <<"p","o","w","e","r","_","o","f","_","a","t","t","o","r","n","e","y">>
license == <<"l","i","c","e","n","s","e">>
settlement == <<"s","e","t","t","l","e","m","e","n","t">>
corporate == <<"c","o","r","p","o","r","a","t","e">>
real_estate == <<"r","e","a","l","_","e","s","t","a","t","e">>
court_order == <<"c","o","u","r","t","_","o","r","d","e","r">>
judgment == <<"j","u","d","g","m","e","n","t">>
affidavit == <<"a","f","f","i","d","a","v","i","t">>
legal_notice == <<"l","e","g","a","l","_","n","o","t","i","c","e">>
insurance == <<"i","n","s","u","r","a","n","c","e">>
loan == <<"l","o","a","n">>
general == <<"g","e","n","e","r","a","l">>

(* valid_types of _detect_document_type, in source order. *)
valid_types ==
  <<contract, nda, will, lease, employment, partnership, power_of_attorney, license, settlement,
    corporate, real_estate, court_order, judgment, affidavit, legal_notice, insurance, loan,
    general>>

(* templates of _get_document_template: label -> [fields, focus]. *)
templates ==
     (contract :> [fields |->
      <<"documentType", "summary", "parties", "keyTerms", "obligations", "deliverables",
        "timeline", "paymentTerms", "terminationClauses", "penalties", "disputeResolution",
        "risks", "recommendations">>,
    focus |-> "contractual obligations, performance requirements, and legal commitments"])
  @@ (nda :> [fields |->
      <<"documentType", "summary", "parties", "confidentialInfo", "restrictions", "duration",
        "exceptions", "returnRequirements", "penalties", "risks", "recommendations">>,
    focus |-> "confidentiality obligations, information protection, and disclosure restrictions"])
  @@ (will :> [fields |->
      <<"documentType", "summary", "testator", "executor", "beneficiaries", "assets", "bequests",
        "guardianship", "conditions", "witnesses", "risks", "recommendations">>,
    focus |-> "asset distribution, beneficiary rights, and estate planning"])
  @@ (lease :> [fields |->
      <<"documentType", "summary", "parties", "property", "rentAmount", "leaseTerm",
        "responsibilities", "restrictions", "renewalOptions", "terminationConditions",
        "securityDeposit", "risks", "recommendations">>,
    focus |-> "rental obligations, property usage rights, and tenancy terms"])
  @@ (employment :> [fields |->
      <<"documentType", "summary", "parties", "position", "salary", "benefits", "duties",
        "workingConditions", "terminationConditions", "confidentiality", "nonCompete", "risks",
        "recommendations">>,
    focus |-> "employment terms, job responsibilities, and worker rights"])
  @@ (partnership :> [fields |->
      <<"documentType", "summary", "partners", "businessPurpose", "capitalContributions",
        "profitSharing", "managementStructure", "decisionMaking", "dissolution", "liabilities",
        "risks", "recommendations">>,
    focus |-> "business partnership terms, profit sharing, and management responsibilities"])
  @@ (power_of_attorney :> [fields |->
      <<"documentType", "summary", "principal", "agent", "powers", "limitations", "duration",
        "conditions", "revocation", "witnessRequirements", "risks", "recommendations">>,
    focus |-> "delegated authority, agent powers, and principal protection"])
  @@ (license :> [fields |->
      <<"documentType", "summary", "parties", "licensedProperty", "scope", "restrictions",
        "royalties", "term", "terminationRights", "intellectualProperty", "risks",
        "recommendations">>,
    focus |-> "usage rights, licensing terms, and intellectual property protection"])
  @@ (settlement :> [fields |->
      <<"documentType", "summary", "parties", "dispute", "settlementAmount", "paymentTerms",
        "releases", "conditions", "confidentiality", "enforcement", "risks", "recommendations">>,
    focus |-> "dispute resolution, settlement terms, and legal releases"])
  @@ (corporate :> [fields |->
      <<"documentType", "summary", "entity", "directors", "shareholders", "governance", "voting",
        "meetings", "fiduciary", "compliance", "risks", "recommendations">>,
    focus |-> "corporate governance, shareholder rights, and regulatory compliance"])
  @@ (real_estate :> [fields |->
      <<"documentType", "summary", "parties", "property", "purchasePrice", "financing",
        "contingencies", "inspections", "closing", "warranties", "risks", "recommendations">>,
    focus |-> "property transfer, purchase terms, and real estate obligations"])
  @@ (court_order :> [fields |->
      <<"documentType", "summary", "court", "parties", "ruling", "requirements", "deadlines",
        "penalties", "compliance", "appealRights", "risks", "recommendations">>,
    focus |-> "court mandates, compliance requirements, and legal obligations"])
  @@ (judgment :> [fields |->
      <<"documentType", "summary", "court", "parties", "caseNumber", "legalIssues", "facts",
        "legalPrinciples", "ratio", "ruling", "precedents", "implications", "recommendations">>,
    focus |-> "judicial reasoning, legal precedents, and case implications"])
  @@ (affidavit :> [fields |->
      <<"documentType", "summary", "deponent", "purpose", "facts", "statements", "verification",
        "notarization", "jurisdiction", "consequences", "risks", "recommendations">>,
    focus |-> "sworn statements, factual declarations, and legal attestations"])
  @@ (legal_notice :> [fields |->
      <<"documentType", "summary", "sender", "recipient", "issue", "demands", "deadlines",
        "consequences", "legalBasis", "nextSteps", "risks", "recommendations">>,
    focus |-> "legal demands, compliance requirements, and potential consequences"])
  @@ (insurance :> [fields |->
      <<"documentType", "summary", "parties", "coverage", "premiums", "deductibles",
        "exclusions", "claims", "beneficiaries", "renewal", "risks", "recommendations">>,
    focus |-> "insurance coverage, policy terms, and claim procedures"])
  @@ (loan :> [fields |->
      <<"documentType", "summary", "parties", "loanAmount", "interestRate", "repaymentTerms",
        "collateral", "defaults", "acceleration", "guarantees", "risks", "recommendations">>,
    focus |-> "lending terms, repayment obligations, and default consequences"])
  @@ (general :> [fields |->
      <<"documentType", "summary", "keyPoints", "parties", "importantDates", "financialTerms",
        "obligations", "risks", "recommendations">>,
    focus |-> "general legal provisions and key obligations"])

(* enhanced_descriptions of _create_analysis_prompt: label -> sequence of <<field, hint>>
   pairs in dict insertion order ("general" has no entry). *)
enhanced_descriptions ==
     (contract :> <<
        <<"keyTerms", "Most important contractual provisions">>,
        <<"obligations", "What each party must do ">>,
        <<"deliverables", "Specific items/services to be provided">>,
        <<"timeline", "Important deadlines and milestones">>,
        <<"paymentTerms", "Financial obligations and schedules">>,
        <<"terminationClauses", "How the contract can end">>,
        <<"penalties", "Consequences for breach">>,
        <<"disputeResolution", "How conflicts are resolved">>>>)
  @@ (nda :> <<
        <<"confidentialInfo", "What information is protected">>,
        <<"restrictions", "Limitations on use and disclosure">>,
        <<"duration", "How long confidentiality lasts">>,
        <<"exceptions", "What information is not protected">>,
        <<"returnRequirements", "What must be returned/destroyed">>,
        <<"penalties", "Consequences for breach">>>>)
  @@ (will :> <<
        <<"testator", "Person making the will ">>,
        <<"executor", "Person managing the estate ">>,
        <<"beneficiaries", "Who receives assets ">>,
        <<"assets", "Property and belongings being distributed ">>,
        <<"bequests", "Specific gifts and distributions ">>,
        <<"guardianship", "Care arrangements for minors ">>>>)
  @@ (lease :> <<
        <<"property", "Description of leased premises">>,
        <<"rentAmount", "Monthly/periodic payment">>,
        <<"leaseTerm", "Duration of the lease">>,
        <<"responsibilities", "Maintenance and care duties">>,
        <<"securityDeposit", "Upfront payment requirements">>,
        <<"renewalOptions", "Extension possibilities">>>>)
  @@ (employment :> <<
        <<"position", "Job title and role">>,
        <<"salary", "Compensation details">>,
        <<"benefits", "Healthcare, vacation, etc.">>,
        <<"duties", "Job responsibilities">>,
        <<"workingConditions", "Hours, location, etc.">>,
        <<"nonCompete", "Post-employment restrictions">>>>)
  @@ (partnership :> <<
        <<"partners", "Business partners involved">>,
        <<"businessPurpose", "What the partnership does">>,
        <<"capitalContributions", "Money/assets each partner provides">>,
        <<"profitSharing", "How profits are divided">>,
        <<"managementStructure", "Who makes decisions">>,
        <<"dissolution", "How partnership ends">>>>)
  @@ (power_of_attorney :> <<
        <<"principal", "Person granting power">>,
        <<"agent", "Person receiving power">>,
        <<"powers", "What the agent can do">>,
        <<"limitations", "Restrictions on authority">>,
        <<"duration", "How long powers last">>,
        <<"revocation", "How to cancel">>>>)
  @@ (license :> <<
        <<"licensedProperty", "What's being licensed">>,
        <<"scope", "Permitted uses">>,
        <<"restrictions", "What's not allowed">>,
        <<"royalties", "Payment terms">>,
        <<"term", "License duration">>,
        <<"intellectualProperty", "IP rights and protections">>>>)
  @@ (settlement :> <<
        <<"dispute", "What conflict is being resolved">>,
        <<"settlementAmount", "Payment details">>,
        <<"paymentTerms", "When and how payment is made">>,
        <<"releases", "What claims are being dropped">>,
        <<"conditions", "Requirements for settlement">>,
        <<"confidentiality", "Non-disclosure requirements">>>>)
  @@ (corporate :> <<
        <<"entity", "Corporation details">>,
        <<"directors", "Board members and roles">>,
        <<"shareholders", "Ownership structure">>,
        <<"governance", "How decisions are made">>,
        <<"voting", "Shareholder voting rights">>,
        <<"compliance", "Regulatory requirements">>>>)
  @@ (real_estate :> <<
        <<"property", "Real estate being transferred">>,
        <<"purchasePrice", "Sale amount">>,
        <<"financing", "Loan and mortgage terms">>,
        <<"contingencies", "Conditions for sale">>,
        <<"inspections", "Property examination requirements">>,
        <<"closing", "Transaction completion details">>>>)
  @@ (court_order :> <<
        <<"court", "Issuing court information">>,
        <<"ruling", "Court's decision">>,
        <<"requirements", "What must be done">>,
        <<"deadlines", "Time limits for compliance">>,
        <<"penalties", "Consequences for non-compliance">>,
        <<"appealRights", "Options for challenging">>>>)
  @@ (judgment :> <<
        <<"court", "Court that delivered the judgment">>,
        <<"caseNumber", "Official case reference">>,
        <<"legalIssues", "Questions of law addressed">>,
        <<"facts", "Key factual findings">>,
        <<"legalPrinciples", "Legal doctrines applied">>,
        <<"ratio", "The legal reasoning behind the decision (ratio decidendi)">>,
        <<"ruling", "The final decision">>,
        <<"precedents", "Previous cases cited">>,
        <<"implications", "Impact on future cases">>>>)
  @@ (affidavit :> <<
        <<"deponent", "Person making the sworn statement">>,
        <<"purpose", "Reason for the affidavit">>,
        <<"facts", "Factual statements being attested">>,
        <<"statements", "Important declarations made">>,
        <<"verification", "How the statement is verified">>,
        <<"notarization", "Notary and witnessing details">>,
        <<"jurisdiction", "Legal jurisdiction for the affidavit">>,
        <<"consequences", "Implications of false statements">>>>)
  @@ (legal_notice :> <<
        <<"sender", "Who is sending the notice">>,
        <<"recipient", "Who must respond">>,
        <<"issue", "Problem being addressed">>,
        <<"demands", "What is required">>,
        <<"deadlines", "Time limits for response">>,
        <<"consequences", "What happens if ignored">>>>)
  @@ (insurance :> <<
        <<"coverage", "What is protected">>,
        <<"premiums", "Payment amounts">>,
        <<"deductibles", "Out-of-pocket costs">>,
        <<"exclusions", "What's not covered">>,
        <<"claims", "How to file claims">>,
        <<"beneficiaries", "Who receives payouts">>>>)
  @@ (loan :> <<
        <<"loanAmount", "How much is borrowed">>,
        <<"interestRate", "Cost of borrowing">>,
        <<"repaymentTerms", "Payment schedule">>,
        <<"collateral", "Security for the loan">>,
        <<"defaults", "What happens if payments stop">>,
        <<"guarantees", "Additional security">>>>)

(***************************************************************************)
(* Python str primitives on character sequences.                           *)
(***************************************************************************)

(* The characters str.strip() removes and json skips, among those that occur. *)
Whitespace == {" ", "\n", "\t", "\r"}

(* str.lower() on one character: the ASCII capitals map to their small letters. *)
lowerChar(c) ==
  CASE c = "A" -> "a" [] c = "B" -> "b" [] c = "C" -> "c" [] c = "D" -> "d"
    [] c = "E" -> "e" [] c = "F" -> "f" [] c = "G" -> "g" [] c = "H" -> "h"
    [] c = "I" -> "i" [] c = "J" -> "j" [] c = "K" -> "k" [] c = "L" -> "l"
    [] c = "M" -> "m" [] c = "N" -> "n" [] c = "O" -> "o" [] c = "P" -> "p"
    [] c = "Q" -> "q" [] c = "R" -> "r" [] c = "S" -> "s" [] c = "T" -> "t"
    [] c = "U" -> "u" [] c = "V" -> "v" [] c = "W" -> "w" [] c = "X" -> "x"
    [] c = "Y" -> "y" [] c = "Z" -> "z" [] OTHER -> c

(* str.upper() on one character. *)
upperChar(c) ==
  CASE c = "a" -> "A" [] c = "b" -> "B" [] c = "c" -> "C" [] c = "d" -> "D"
    [] c = "e" -> "E" [] c = "f" -> "F" [] c = "g" -> "G" [] c = "h" -> "H"
    [] c = "i" -> "I" [] c = "j" -> "J" [] c = "k" -> "K" [] c = "l" -> "L"
    [] c = "m" -> "M" [] c = "n" -> "N" [] c = "o" -> "O" [] c = "p" -> "P"
    [] c = "q" -> "Q" [] c = "r" -> "R" [] c = "s" -> "S" [] c = "t" -> "T"
    [] c = "u" -> "U" [] c = "v" -> "V" [] c = "w" -> "W" [] c = "x" -> "X"
    [] c = "y" -> "Y" [] c = "z" -> "Z" [] OTHER -> c

(* s.upper() *)
upper(s) == [i \in 1..Len(s) |-> upperChar(s[i])]

(* s.lower() *)
lower(s) == [i \in 1..Len(s) |-> lowerChar(s[i])]

(* s.strip() *)
strip(s) ==
  LET keep == {i \in 1..Len(s) : s[i] \notin Whitespace}
  IN  IF keep = {} THEN <<>>
      ELSE SubSeq(s, CHOOSE i \in keep : \A j \in keep : i <= j,
                     CHOOSE i \in keep : \A j \in keep : j <= i)

(* s.startswith(p) *)
startswith(s, p) == Len(s) >= Len(p) /\ SubSeq(s, 1, Len(p)) = p

(* s.split(sep) for a one-character separator: the pieces between separators. *)
RECURSIVE split(_, _)
split(s, sep) ==
  LET at == {i \in 1..Len(s) : s[i] = sep}
  IN  IF at = {} THEN <<s>>
      ELSE LET i == CHOOSE k \in at : \A j \in at : k <= j
           IN  <<SubSeq(s, 1, i - 1)>> \o split(SubSeq(s, i + 1, Len(s)), sep)

(* sep.join(parts) *)
RECURSIVE join(_, _)
join(sep, parts) ==
  IF parts = <<>> THEN <<>>
  ELSE IF Len(parts) = 1 THEN parts[1]
  ELSE parts[1] \o sep \o join(sep, Tail(parts))

(* str(n) for a natural number: its decimal digits. *)
RECURSIVE digits(_)
digits(n) ==
  LET d == <<"0", "1", "2", "3", "4", "5", "6", "7", "8", "9">>
  IN  IF n < 10 THEN <<d[n + 1]>> ELSE digits(n \div 10) \o <<d[(n % 10) + 1]>>

(***************************************************************************)
(* Document texts, run-length encoded.                                     *)
(***************************************************************************)

(* The encoding of a character sequence. *)
RECURSIVE textOf(_)
textOf(s) ==
  IF s = <<>> THEN <<>>
  ELSE LET init == textOf(SubSeq(s, 1, Len(s) - 1))
           c == s[Len(s)]
       IN  IF init # <<>> /\ init[Len(init)].c = c
           THEN [init EXCEPT ![Len(init)].n = @ + 1]
           ELSE Append(init, [c |-> c, n |-> 1])

(* len(t) *)
RECURSIVE textLen(_)
textLen(t) == IF t = <<>> THEN 0 ELSE t[1].n + textLen(Tail(t))

(* a + b *)
textConcat(a, b) ==
  IF a = <<>> THEN b
  ELSE IF b = <<>> THEN a
  ELSE IF a[Len(a)].c = b[1].c
       THEN SubSeq(a, 1, Len(a) - 1) \o <<[c |-> b[1].c, n |-> a[Len(a)].n + b[1].n]>> \o Tail(b)
  ELSE a \o b

(* t[:k] *)
RECURSIVE textTake(_, _)
textTake(t, k) ==
  IF t = <<>> \/ k <= 0 THEN <<>>
  ELSE IF t[1].n <= k THEN <<t[1]>> \o textTake(Tail(t), k - t[1].n)
  ELSE <<[c |-> t[1].c, n |-> k]>>

(* t.strip() *)
textStrip(t) ==
  LET keep == {i \in 1..Len(t) : t[i].c \notin Whitespace}
  IN  IF keep = {} THEN <<>>
      ELSE SubSeq(t, CHOOSE i \in keep : \A j \in keep : i <= j,
                     CHOOSE i \in keep : \A j \in keep : j <= i)

(***************************************************************************)
(* json.loads (src/google_legal_analyzer.py line 604), after CPython's     *)
(* json.decoder: the strict decoder restricted to the characters of        *)
(* Alphabet.  Indices are Python's: charAt(s, i) is s[i:i+1].  The         *)
(* alphabet has no backslash, sign, point or exponent and no letters of    *)
(* true, false, NaN or Infinity, so string escapes, floats and those       *)
(* constants cannot occur; every other branch of the decoder is here.      *)
(***************************************************************************)

(* TLA+ string literals cannot hold the grave accent; this stands for it. *)
Backtick == "BACKTICK"

(* The characters model replies are made of. *)
Alphabet ==
  {Backtick, "\n", " ", "{", "}", "[", "]", "\"", ":", ",", "0", "1",
   "a", "j", "s", "o", "n", "J", "S", "O", "N", "u", "l", "x"}

(* Tagged Python values. *)
StrVal(s) == [kind |-> "str", val |-> s]
IntVal(n) == [kind |-> "int", val |-> n]
NoneVal == [kind |-> "null", val |-> 0]
ListVal(items) == [kind |-> "list", val |-> items]
DictVal(f) == [kind |-> "dict", val |-> f]
EmptyDict == [k \in {} |-> NoneVal]

(* d[key] = value on a dict: a present key is overwritten, an absent one added. *)
DictSet(f, key, value) == (key :> value) @@ f

(* The outcome of a scanning step: a value and the index after it, or the
   JSONDecodeError (msg, pos) it raises. *)
Scanned(v, e) == [ok |-> TRUE, val |-> v, end |-> e, msg |-> "", pos |-> 0]
DecodeError(m, p) == [ok |-> FALSE, val |-> NoneVal, end |-> 0, msg |-> m, pos |-> p]

charAt(s, i) == IF i >= 0 /\ i < Len(s) THEN s[i + 1] ELSE ""

(* WHITESPACE.match(s, i).end(): the first index from i on that holds no whitespace. *)
skipws(s, i) ==
  LET rest == {j \in i..(Len(s) - 1) : s[j + 1] \notin Whitespace}
  IN  IF rest = {} THEN (IF i > Len(s) THEN i ELSE Len(s))
      ELSE CHOOSE j \in rest : \A k \in rest : j <= k

(* The run of decimal digits starting at index i: the index after it. *)
digitsEnd(s, i) ==
  LET rest == {j \in i..(Len(s) - 1) : s[j + 1] \notin {"0", "1", "2", "3", "4", "5", "6", "7", "8", "9"}}
  IN  IF rest = {} THEN (IF i > Len(s) THEN i ELSE Len(s))
      ELSE CHOOSE j \in rest : \A k \in rest : j <= k

(* int(lexeme) for a sequence of decimal digits. *)
RECURSIVE parse_int(_)
parse_int(ds) ==
  LET v(c) == CASE c = "0" -> 0 [] c = "1" -> 1 [] c = "2" -> 2 [] c = "3" -> 3 [] c = "4" -> 4
                [] c = "5" -> 5 [] c = "6" -> 6 [] c = "7" -> 7 [] c = "8" -> 8 [] c = "9" -> 9
  IN  IF ds = <<>> THEN 0
      ELSE 10 * parse_int(SubSeq(ds, 1, Len(ds) - 1)) + v(ds[Len(ds)])

(* NUMBER_RE.match(s, i) without sign, fraction and exponent: 0 | [1-9][0-9]*. *)
match_number(s, i) ==
  LET c == charAt(s, i)
  IN  IF c = "0" THEN Scanned(IntVal(0), i + 1)
      ELSE IF c \in {"1", "2", "3", "4", "5", "6", "7", "8", "9"}
           THEN LET e == digitsEnd(s, i)
                IN  Scanned(IntVal(parse_int(SubSeq(s, i + 1, e))), e)
      ELSE DecodeError("Expecting value", i)

(* scanstring(s, end, strict=True): end is the index after the opening quote. *)
scanstring(s, end) ==
  LET stops == {j \in end..(Len(s) - 1) : s[j + 1] \in {"\"", "\n", "\t", "\r"}}
  IN  IF stops = {} THEN DecodeError("Unterminated string starting at", end - 1)
      ELSE LET j == CHOOSE k \in stops : \A m \in stops : k <= m
           IN  IF s[j + 1] = "\"" THEN Scanned(StrVal(SubSeq(s, end + 1, j)), j + 1)
               ELSE DecodeError("Invalid control character at", j)

RECURSIVE scan_once(_, _), JSONObjectLoop(_, _, _), JSONArrayLoop(_, _, _)

(* JSONObject: end is the index after the opening brace. *)
JSONObject(s, end) ==
  LET e1 == IF charAt(s, end) # "\"" THEN skipws(s, end) ELSE end
      c1 == charAt(s, e1)
  IN  IF c1 = "}" THEN Scanned(DictVal(EmptyDict), e1 + 1)
      ELSE IF c1 # "\""
           THEN DecodeError("Expecting property name enclosed in double quotes", e1)
      ELSE JSONObjectLoop(s, e1 + 1, EmptyDict)

(* The while loop of JSONObject: end is the index after a key's opening quote, pairs
   the dict of the pairs read so far (dict(pairs): a later pair replaces an earlier). *)
JSONObjectLoop(s, end, pairs) ==
  With(scanstring(s, end), LAMBDA key :
    IF ~key.ok THEN key
    ELSE
  With(IF charAt(s, key.end) # ":" THEN skipws(s, key.end) ELSE key.end, LAMBDA e2 :
    IF charAt(s, e2) # ":" THEN DecodeError("Expecting ':' delimiter", e2)
    ELSE
  With(scan_once(s, skipws(s, e2 + 1)), LAMBDA value :
    IF ~value.ok THEN value
    ELSE
  With(skipws(s, value.end), LAMBDA e4 :
  With(DictSet(pairs, key.val.val, value.val), LAMBDA pairs2 :
    IF charAt(s, e4) = "}" THEN Scanned(DictVal(pairs2), e4 + 1)
    ELSE IF charAt(s, e4) # "," THEN DecodeError("Expecting ',' delimiter", e4)
    ELSE
  With(skipws(s, e4 + 1), LAMBDA e5 :
    IF charAt(s, e5) # "\""
    THEN DecodeError("Expecting property name enclosed in double quotes", e5)
    ELSE JSONObjectLoop(s, e5 + 1, pairs2)))))))

(* JSONArray: end is the index after the opening bracket. *)
JSONArray(s, end) ==
  LET e1 == skipws(s, end)
  IN  IF charAt(s, e1) = "]" THEN Scanned(ListVal(<<>>), e1 + 1)
      ELSE JSONArrayLoop(s, e1, <<>>)

(* The while loop of JSONArray: end is the index of the next item. *)
JSONArrayLoop(s, end, values) ==
  With(scan_once(s, end), LAMBDA value :
    IF ~value.ok THEN value
    ELSE
  With(skipws(s, value.end), LAMBDA e2 :
  With(Append(values, value.val), LAMBDA values2 :
    IF charAt(s, e2) = "]" THEN Scanned(ListVal(values2), e2 + 1)
    ELSE IF charAt(s, e2) # "," THEN DecodeError("Expecting ',' delimiter", e2)
    ELSE With(skipws(s, e2 + 1), LAMBDA e3 : JSONArrayLoop(s, e3, values2)))))

(* scan_once: the value starting at index idx; StopIteration(idx) becomes, in every
   caller, JSONDecodeError("Expecting value", idx). *)
scan_once(s, idx) ==
  LET nextchar == charAt(s, idx)
  IN  IF idx >= Len(s) THEN DecodeError("Expecting value", idx)
      ELSE IF nextchar = "\"" THEN scanstring(s, idx + 1)
      ELSE IF nextchar = "{" THEN JSONObject(s, idx + 1)
      ELSE IF nextchar = "[" THEN JSONArray(s, idx + 1)
      ELSE IF nextchar = "n" /\ idx + 4 <= Len(s)
                 /\ SubSeq(s, idx + 1, idx + 4) = <<"n", "u", "l", "l">>
           THEN Scanned(NoneVal, idx + 4)
      ELSE match_number(s, idx)

(* JSONDecoder.decode: one value, whitespace around it, nothing after it. *)
json_loads(s) ==
  With(scan_once(s, skipws(s, 0)), LAMBDA r :
    IF ~r.ok THEN r
    ELSE With(skipws(s, r.end), LAMBDA e :
           IF e # Len(s) THEN DecodeError("Extra data", e) ELSE r))

(* str(e) of a JSONDecodeError: "%s: line %d column %d (char %d)". *)
errmsg(s, e) ==
  LET before == {j \in 1..e.pos : s[j] = "\n"}
      lineno == Cardinality(before) + 1
      colno == IF before = {} THEN e.pos + 1
               ELSE e.pos - (CHOOSE j \in before : \A k \in before : k <= j) + 1
  IN  <<e.msg, ": line ">> \o digits(lineno) \o <<" column ">> \o digits(colno)
        \o <<" (char ">> \o digits(e.pos) \o <<")">>

(***************************************************************************)
(* _parse_ai_response (lines 584-627).                                     *)
(***************************************************************************)

(* The opening and closing marker of a markdown code block. *)
FENCE == <<Backtick, Backtick, Backtick>>

(* What a call does: it returns a value, or raises the exception exc. *)
Returns(v) == [kind |-> "return", value |-> v, exc |-> "", msg |-> ""]
Raises(e, m) == [kind |-> "raise", value |-> NoneVal, exc |-> e, msg |-> m]

(* lines[start_idx:end_idx] *)
slice(lines, start_idx, end_idx) ==
  IF start_idx >= end_idx \/ start_idx >= Len(lines) THEN <<>>
  ELSE SubSeq(lines, start_idx + 1, IF end_idx > Len(lines) THEN Len(lines) ELSE end_idx)

(* The index the loop of lines 597-600 leaves in end_idx: that of the last line
   that is a closing marker, or of the last line when there is none. *)
closing_idx(lines) ==
  LET marks == {i \in 0..(Len(lines) - 1) : strip(lines[i + 1]) = FENCE}
  IN  IF marks = {} THEN Len(lines) - 1
      ELSE CHOOSE i \in marks : \A j \in marks : j <= i

(* The index lines 593-595 leave in start_idx; lines has at least two elements. *)
opening_idx(lines) ==
  IF lower(strip(lines[2])) = <<"j", "s", "o", "n">> THEN 2 ELSE 1

(* response_text[:1000] + "..." if len(response_text) > 1000 else response_text *)
rawResponse(response_text) ==
  IF Len(response_text) > 1000 THEN SubSeq(response_text, 1, 1000) \o <<"...">>
  ELSE response_text

(* The dict of lines 615-627. *)
fallback(response_text, e) ==
  DictVal(
       (<<"documentType">> :> StrVal(<<"Document Analysis">>))
    @@ (<<"summary">> :> StrVal(<<"The document was analyzed but the response could not be parsed into structured format. The AI may have provided analysis in an unexpected format.">>))
    @@ (<<"error">> :> StrVal(<<"JSON parsing failed">>))
    @@ (<<"errorDetails">> :> StrVal(errmsg(response_text, e)))
    @@ (<<"rawResponse">> :> StrVal(rawResponse(response_text)))
    @@ (<<"recommendations">> :> ListVal(<<DictVal(
             (<<"item">> :> StrVal(<<"Manual review recommended">>))
          @@ (<<"severity">> :> StrVal(<<"HIGH">>))
          @@ (<<"explanation">> :> StrVal(<<"The automated analysis encountered formatting issues. Please review the raw response above.">>))
          @@ (<<"action">> :> StrVal(<<"Contact support or retry the analysis">>)))>>)))

(* Lines 588-601: the text handed to json.loads, or the IndexError of lines[1] on a
   one-line reply that starts with the marker. *)
unfence(response_text) ==
  With(strip(response_text), LAMBDA text :
    IF ~startswith(text, FENCE) THEN Returns(StrVal(text))
    ELSE With(split(text, "\n"), LAMBDA lines :
           IF Len(lines) < 2 THEN Raises("IndexError", "list index out of range")
           ELSE Returns(StrVal(join(<<"\n">>,
                  slice(lines, opening_idx(lines), closing_idx(lines)))))))

(* _parse_ai_response(response_text): the parsed value, the fallback dict on a
   JSONDecodeError, or the exception that escapes (only JSONDecodeError is caught). *)
_parse_ai_response(response_text) ==
  With(unfence(response_text), LAMBDA u :
    IF u.kind = "raise" THEN u
    ELSE With(json_loads(u.value.val), LAMBDA r :
           IF r.ok THEN Returns(r.val) ELSE Returns(fallback(u.value.val, r))))

(***************************************************************************)
(* The Model Client.  A call of model.generate_content either raises (a    *)
(* transport, quota or safety error, also one raised on reading            *)
(* response.text) or gives a reply text; the client is free in which.      *)
(***************************************************************************)
ModelRaises == [raises |-> TRUE, text |-> <<>>]
ModelReplies(t) == [raises |-> FALSE, text |-> t]

(***************************************************************************)
(* _detect_document_type (lines 170-236).                                  *)
(***************************************************************************)

(* detection_prompt: the fixed instruction block around document_text[:4000]. *)
detection_prompt(document_text) ==
  [kind |-> "detection", document_text |-> textTake(document_text, 4000)]

(* detected_type in valid_types *)
in_valid_types(detected_type) ==
  \E i \in 1..Len(valid_types) : valid_types[i] = detected_type

(* Lines 215-231, the body of the try block, given what the model call does. *)
detect_try(b) ==
  IF b.raises THEN Raises("Exception", "the model call failed")
  ELSE LET detected_type == lower(strip(b.text))
       IN  IF in_valid_types(detected_type) THEN Returns(StrVal(detected_type))
           ELSE Returns(StrVal(general))

(* The classifier without the except clause of lines 233-236: an error of the model
   call escapes.  A faulty variant, used to show what totality rests on. *)
_detect_document_type_uncaught(document_text, b) == detect_try(b)

(* _detect_document_type(document_text), given what its one model call does:
   an exception of the try block is caught (lines 233-236) and gives "general". *)
_detect_document_type(document_text, b) ==
  LET tried == detect_try(b)
  IN  IF tried.kind = "raise" THEN Returns(StrVal(general)) ELSE tried

(***************************************************************************)
(* _get_document_template (lines 238-315).                                 *)
(***************************************************************************)

(* templates.get(document_type, templates["contract"]): a faulty variant with the
   first template as the default, used to show what the lookup's default rests on. *)
_get_document_template_first(document_type) ==
  IF document_type \in DOMAIN templates THEN templates[document_type]
  ELSE templates[contract]

(* templates.get(document_type, templates["general"]) *)
_get_document_template(document_type) ==
  IF document_type \in DOMAIN templates THEN templates[document_type]
  ELSE templates[general]

(***************************************************************************)
(* _create_analysis_prompt (lines 317-582).                                *)
(***************************************************************************)

(* field in seq *)
InSeq(x, seq) == \E i \in 1..Len(seq) : seq[i] = x

(* Lines 327-336: the descriptions of the four common fields; the other fields of
   the template get no entry here. *)
RECURSIVE common_fields(_, _, _)
common_fields(fields, document_type, template) ==
  IF fields = <<>> THEN [f \in {} |-> NoneVal]
  ELSE LET rest == common_fields(SubSeq(fields, 1, Len(fields) - 1), document_type, template)
           field == fields[Len(fields)]
       IN  IF field = "documentType"
           THEN DictSet(rest, field,
                  StrVal(<<"Specific type of ">> \o document_type \o <<" document">>))
           ELSE IF field = "summary"
           THEN DictSet(rest, field,
                  StrVal(<<"Comprehensive summary focusing on ", template.focus,
                           " with plain language explanation">>))
           ELSE IF field = "risks"
           THEN DictSet(rest, field, ListVal(<<StrVal(
                  <<"Detailed risk analysis with severity levels and mitigation strategies for ">>
                    \o document_type)>>))
           ELSE IF field = "recommendations"
           THEN DictSet(rest, field, ListVal(<<StrVal(
                  <<"Actionable recommendations with step-by-step guidance for ">>
                    \o document_type)>>))
           ELSE rest

(* Lines 485-487: every entry of the type's hints is written into json_fields. *)
RECURSIVE apply_enhanced(_, _)
apply_enhanced(json_fields, hints) ==
  IF hints = <<>> THEN json_fields
  ELSE apply_enhanced(DictSet(json_fields, hints[1][1], StrVal(<<hints[1][2]>>)), Tail(hints))

(* Lines 490-492: a template field still without description gets the generic one. *)
RECURSIVE fill_generic(_, _)
fill_generic(json_fields, fields) ==
  IF fields = <<>> THEN json_fields
  ELSE LET field == fields[1]
           filled == IF field \in DOMAIN json_fields THEN json_fields
                     ELSE DictSet(json_fields, field,
                            StrVal(<<"Relevant ", field, " information for this document type">>))
       IN  fill_generic(filled, Tail(fields))

(* json_fields as it stands at line 493. *)
json_fields_for(document_type, template) ==
  With(common_fields(template.fields, document_type, template), LAMBDA common :
    fill_generic(IF document_type \in DOMAIN enhanced_descriptions
                 THEN apply_enhanced(common, enhanced_descriptions[document_type])
                 ELSE common,
                 template.fields))

(* The pieces of the target-schema block: one per field, and the separating comma. *)
SchemaArray(field, second) ==
  [tok |-> "field", field |-> field, shape |-> "array", second |-> second, description |-> NoneVal]
SchemaScalar(field, description) ==
  [tok |-> "field", field |-> field, shape |-> "scalar", second |-> "", description |-> description]
SchemaComma ==
  [tok |-> ",", field |-> "", shape |-> "", second |-> "", description |-> NoneVal]

(* Lines 528-539 without the test of line 536: only risks and recommendations are
   asked for as lists.  A faulty variant, used to show what the shapes rest on. *)
schema_field_two_lists(field, json_fields) ==
  LET description == IF field \in DOMAIN json_fields THEN json_fields[field]
                     ELSE StrVal(<<"Relevant ", field, " information for this document type">>)
  IN  IF field \in {"risks", "recommendations"}
      THEN SchemaArray(field, "actionable details")
      ELSE SchemaScalar(field, description)

(* Lines 528-539: what one field adds to the prompt. *)
schema_field(field, json_fields) ==
  LET description == IF field \in DOMAIN json_fields THEN json_fields[field]
                     ELSE StrVal(<<"Relevant ", field, " information for this document type">>)
  IN  IF field \in {"risks", "recommendations"}
      THEN SchemaArray(field, "actionable details")
      ELSE IF field \in {"obligations", "keyTerms", "statements", "facts", "precedents",
                         "legalPrinciples"}
      THEN SchemaArray(field, "practical details")
      ELSE SchemaScalar(field, description)

(* The loop of lines 527-542 without the test of line 541: a comma after every
   field, the last included.  A faulty variant, used to show what the separators
   rest on. *)
RECURSIVE schema_block_trailing(_, _, _)
schema_block_trailing(fields, i, json_fields) ==
  IF i >= Len(fields) THEN <<>>
  ELSE <<schema_field(fields[i + 1], json_fields), SchemaComma>>
         \o schema_block_trailing(fields, i + 1, json_fields)

(* Lines 527-542: the loop over enumerate(template["fields"]); i is the 0-based index
   of the next field. *)
RECURSIVE schema_block(_, _, _)
schema_block(fields, i, json_fields) ==
  IF i >= Len(fields) THEN <<>>
  ELSE <<schema_field(fields[i + 1], json_fields)>>
         \o (IF i < Len(fields) - 1 THEN <<SchemaComma>> ELSE <<>>)
         \o schema_block(fields, i + 1, json_fields)

(* _create_analysis_prompt(document_text), given what the model call of its own
   classification (line 321) does. *)
_create_analysis_prompt(document_text, b) ==
  With(_detect_document_type(document_text, b).value.val, LAMBDA document_type :
  With(_get_document_template(document_type), LAMBDA template :
  With(json_fields_for(document_type, template), LAMBDA json_fields :
    [kind |-> "analysis",
     document_text |-> document_text,
     document_type |-> document_type,
     detected_line |-> upper(document_type),
     focus |-> template.focus,
     schema |-> schema_block(template.fields, 0, json_fields)])))

(***************************************************************************)
(* The text extractors (lines 66-115).  What a stored file yields to its   *)
(* reader is readable or not (a corrupt PDF or DOCX, bytes that are not    *)
(* UTF-8) and, when readable, one text: the whole of a TXT file, the one   *)
(* page of a PDF, the one paragraph of a DOCX.                             *)
(***************************************************************************)

(* No file at a path. *)
NoFile == [by |-> 0, readable |-> FALSE, text |-> <<>>]

(* _extract_from_txt: file.read().strip() *)
_extract_from_txt(file) ==
  IF file = NoFile \/ ~file.readable THEN Raises("Exception", "Error reading TXT file")
  ELSE Returns(textStrip(file.text))

(* _extract_from_pdf: each page with text adds "\n--- Page k ---\n{text}\n". *)
_extract_from_pdf(file) ==
  IF file = NoFile \/ ~file.readable THEN Raises("Exception", "Error reading PDF file")
  ELSE IF file.text = <<>> THEN Returns(<<>>)
  ELSE Returns(textStrip(textConcat(textConcat(
         textOf(<<"\n", "-", "-", "-", " ", "P", "a", "g", "e", " ", "1", " ", "-", "-", "-", "\n">>),
         file.text), textOf(<<"\n">>))))

(* _extract_from_docx: each paragraph that is not blank adds its text and "\n". *)
_extract_from_docx(file) ==
  IF file = NoFile \/ ~file.readable THEN Raises("Exception", "Error reading DOCX file")
  ELSE IF textStrip(file.text) = <<>> THEN Returns(<<>>)
  ELSE Returns(textStrip(textConcat(file.text, textOf(<<"\n">>))))

(* extract_text_from_file: dispatch on Path(file_path).suffix.lower(). *)
extract_text_from_file(file_path, file) ==
  LET file_extension == lower(file_path.suffix)
  IN  IF file_extension = <<".", "p", "d", "f">> THEN _extract_from_pdf(file)
      ELSE IF file_extension = <<".", "d", "o", "c", "x">> THEN _extract_from_docx(file)
      ELSE IF file_extension = <<".", "t", "x", "t">> THEN _extract_from_txt(file)
      ELSE Raises("ValueError", "Unsupported file format")

(***************************************************************************)
(* analyze_document (lines 117-168), step by step.                         *)
(***************************************************************************)

(* max_chars of line 136. *)
max_chars == 30000

(* The marker of line 138. *)
TRUNCATION_MARKER ==
  textOf(<<"\n", "\n", "[", "D", "o", "c", "u", "m", "e", "n", "t", " ", "t", "r", "u", "n", "c",
           "a", "t", "e", "d", " ", "f", "o", "r", " ", "a", "n", "a", "l", "y", "s", "i", "s",
           ".", ".", ".", "]">>)

(* self.model_name of line 34. *)
model_name == <<"gemini-1.5-flash">>

(* Lines 137-139 with >= for >: a faulty variant that also cuts a text of exactly
   max_chars characters, used to show what the threshold rests on. *)
truncate_from_threshold(document_text) ==
  IF textLen(document_text) >= max_chars
  THEN textConcat(textTake(document_text, max_chars), TRUNCATION_MARKER)
  ELSE document_text

(* Lines 137-139. *)
truncate(document_text) ==
  IF textLen(document_text) > max_chars
  THEN textConcat(textTake(document_text, max_chars), TRUNCATION_MARKER)
  ELSE document_text

(* Lines 155-161: the two metadata entries written into the parsed result.  Item
   assignment with a str key succeeds on a dict alone: on a list, a str, an int or
   None it raises TypeError. *)
inject_metadata(analysis_result, document_type, document_text) ==
  IF analysis_result.kind # "dict"
  THEN Raises("TypeError", "object does not support item assignment")
  ELSE Returns(DictVal(
         DictSet(DictSet(analysis_result.val,
           <<"detectedDocumentType">>, StrVal(document_type)),
           <<"analysisMetadata">>, DictVal(
                (<<"documentLength">> :> IntVal(textLen(document_text)))
             @@ (<<"processingTime">> :> StrVal(<<"completed">>))
             @@ (<<"aiModel">> :> StrVal(model_name))
             @@ (<<"analysisType">> :> StrVal(document_type \o <<"_specific">>))))))

(* Lines 152-164: parse the reply, add the metadata, return. *)
parse_and_inject(response_text, document_type, document_text) ==
  With(_parse_ai_response(response_text), LAMBDA parsed :
    IF parsed.kind = "raise" THEN parsed
    ELSE inject_metadata(parsed.value, document_type, document_text))

(***************************************************************************)
(* The service: the process, the upload directory and the requests.        *)
(***************************************************************************)

(* How many requests to /api/analyze there are. *)
NReq == 2

(* How far around max_chars the lengths of the long documents range. *)
Slack == 1

Requests == 1..NReq

VARIABLES
  server,  (* the process: its entry point, whether GOOGLE_AI_API_KEY is in its
              environment, the module-level analyzer, whether it serves *)
  fs,      (* temp_uploads: file name -> the file stored under it, or NoFile *)
  req,     (* each request's position in the route and its locals *)
  probe    (* the input and results of the functions applied on their own *)

vars == <<server, fs, req, probe>>

(* The file names clients upload under. *)
FileNames ==
  { [stem |-> "a", suffix |-> <<".", "t", "x", "t">>],
    [stem |-> "b", suffix |-> <<".", "P", "D", "F">>],
    [stem |-> "c", suffix |-> <<".", "d", "o", "c", "x">>],
    [stem |-> "d", suffix |-> <<".", "e", "x", "e">>] }

(* file.filename == '' *)
NoName == [stem |-> "", suffix |-> <<>>]

(* A document of n letters with whitespace around it. *)
Document(n) == <<[c |-> " ", n |-> 1], [c |-> "a", n |-> n], [c |-> "\n", n |-> 1]>>

(* What clients upload: unreadable bytes, the empty file, a blank file, a short
   document, and documents of about max_chars characters. *)
Uploads ==
  { [readable |-> FALSE, text |-> <<>>],
    [readable |-> TRUE, text |-> <<>>],
    [readable |-> TRUE, text |-> <<[c |-> " ", n |-> 2], [c |-> "\n", n |-> 1]>>],
    [readable |-> TRUE, text |-> Document(2)] }
  \cup { [readable |-> TRUE, text |-> Document(n)] : n \in (max_chars - Slack)..(max_chars + Slack) }

(* The multipart forms posted: without a document part, with an unnamed one, or
   with a named upload. *)
Forms ==
  { [hasDocument |-> FALSE, filename |-> NoName, readable |-> FALSE, text |-> <<>>],
    [hasDocument |-> TRUE, filename |-> NoName, readable |-> FALSE, text |-> <<>>] }
  \cup { [hasDocument |-> TRUE, filename |-> f, readable |-> u.readable, text |-> u.text] :
           f \in FileNames, u \in Uploads }

(* What the Model Client does on a classification call. *)
DetectionBehaviours ==
  { ModelRaises,
    ModelReplies(<<" ", "N", "D", "A", "\n">>),
    ModelReplies(<<"j", "s", "o", "n">>) }

(* What the Model Client does on the main analysis call. *)
AnalysisBehaviours ==
  { ModelRaises,
    ModelReplies(<<>>),
    ModelReplies(<<"{", "\"", "a", "\"", ":", "1", "}">>),
    ModelReplies(FENCE \o <<"j", "s", "o", "n", "\n", "{", "}", "\n">> \o FENCE),
    ModelReplies(<<"[", "1", "]">>),
    ModelReplies(<<"{", "\"", "a", "\"", ":">>),
    ModelReplies(FENCE \o <<"j", "s", "o", "n">>) }

(* One call of model.generate_content as the request's log keeps it: which prompt
   it was made with, and whether it raised. *)
Call(kind, raised) == [kind |-> kind, raised |-> raised]

NoUpload == [readable |-> FALSE, text |-> <<>>]
NoOutcome == [kind |-> "none", value |-> NoneVal, exc |-> "", msg |-> ""]
NoResponse == [status |-> 0, error |-> "", analysis |-> NoneVal]
NoPrompt ==
  [kind |-> "none", document_text |-> <<>>, document_type |-> <<>>, detected_line |-> <<>>,
   focus |-> "", schema |-> <<>>]

(* A request that has not arrived. *)
Idle ==
  [pc |-> "idle", upload |-> NoUpload, file_path |-> NoName, document_text |-> <<>>,
   document_type |-> <<>>,
   prompt |-> NoPrompt, response_text |-> <<>>, outcome |-> NoOutcome, calls |-> <<>>,
   response |-> NoResponse]

(* jsonify({...}), 200 and jsonify({"error": ...}), status. *)
Ok200(analysis) == [status |-> 200, error |-> "", analysis |-> analysis]
Error(status, error) == [status |-> status, error |-> error, analysis |-> NoneVal]

(* A finished request keeps its HTTP response alone. *)
Done(response) == [Idle EXCEPT !.pc = "done", !.response = response]

(* analyze_document ends with an exception: its locals are gone (lines 166-168). *)
Ended(r, outcome) ==
  [Idle EXCEPT !.pc = "ended", !.upload = req[r].upload, !.file_path = req[r].file_path,
               !.outcome = outcome, !.calls = req[r].calls]

(* Before the process starts: nothing stored, no request. *)
AtRest ==
  /\ server = [state |-> "off", entry |-> "", api_key |-> "unread", analyzer |-> "unset"]
  /\ fs = [f \in FileNames |-> NoFile]
  /\ req = [r \in Requests |-> Idle]

Init ==
  /\ AtRest
  /\ probe = <<>>

(* The process starts (lines 630-639 and 719-731, main.py lines 6-15): the module
   body constructs the analyzer, which fails without the libraries, without the API
   key or when the model cannot be initialised; run directly, the module serves only
   with an analyzer; main.py imports app and serves. *)
Startup(entry, available, api_key, model_ok) ==
  /\ server.state = "off"
  /\ LET analyzer == IF available /\ api_key /\ model_ok THEN "ready" ELSE "none"
     IN  server' = [state |-> IF entry = "main.py" \/ analyzer = "ready" THEN "serving"
                              ELSE "exited",
                    entry |-> entry,
                    api_key |-> IF api_key THEN "present" ELSE "absent",
                    analyzer |-> analyzer]
  /\ UNCHANGED <<fs, req, probe>>

(* Lines 654-673 up to file.save: the request arrives. *)
Receive(r, form) ==
  /\ server.state = "serving"
  /\ req[r].pc = "idle"
  /\ req' = [req EXCEPT ![r] =
       IF server.analyzer # "ready"
       THEN Done(Error(500, "Google Cloud AI analyzer not initialized. Check your API key and configuration."))
       ELSE IF ~form.hasDocument THEN Done(Error(400, "No file provided"))
       ELSE IF form.filename = NoName THEN Done(Error(400, "No file selected"))
       ELSE [Idle EXCEPT !.pc = "save", !.file_path = form.filename,
                         !.upload = [readable |-> form.readable, text |-> form.text]]]
  /\ UNCHANGED <<server, fs, probe>>

(* Line 673, file.save: the upload is written under its own name in temp_uploads,
   replacing whatever is stored under that name. *)
Save(r) ==
  /\ req[r].pc = "save"
  /\ fs' = [fs EXCEPT ![req[r].file_path] =
              [by |-> r, readable |-> req[r].upload.readable, text |-> req[r].upload.text]]
  /\ req' = [req EXCEPT ![r].pc = "exists"]
  /\ UNCHANGED <<server, probe>>

(* Lines 120-121, os.path.exists. *)
CheckExists(r) ==
  /\ req[r].pc = "exists"
  /\ req' = [req EXCEPT ![r] =
       IF fs[req[r].file_path] = NoFile
       THEN Ended(r, Raises("FileNotFoundError", "File not found"))
       ELSE [@ EXCEPT !.pc = "extract"]]
  /\ UNCHANGED <<server, fs, probe>>

(* Lines 126-127 without the check of lines 128-129: a blank text goes on to the
   classifier.  A faulty variant, used to show what failing fast rests on. *)
Extract_unchecked(r) ==
  /\ req[r].pc = "extract"
  /\ LET extracted == extract_text_from_file(req[r].file_path, fs[req[r].file_path])
     IN  req' = [req EXCEPT ![r] =
           IF extracted.kind = "raise" THEN Ended(r, extracted)
           ELSE [@ EXCEPT !.pc = "detect", !.document_text = extracted.value]]
  /\ UNCHANGED <<server, fs, probe>>

(* Lines 126-129: the text is read from what the path holds now; no text is an
   error. *)
Extract(r) ==
  /\ req[r].pc = "extract"
  /\ LET extracted == extract_text_from_file(req[r].file_path, fs[req[r].file_path])
     IN  req' = [req EXCEPT ![r] =
           IF extracted.kind = "raise" THEN Ended(r, extracted)
           ELSE IF textStrip(extracted.value) = <<>>
           THEN Ended(r, Raises("ValueError", "No text could be extracted from the document"))
           ELSE [@ EXCEPT !.pc = "detect", !.document_text = extracted.value]]
  /\ UNCHANGED <<server, fs, probe>>

(* Line 132: the first classification, with its model call. *)
Detect(r, b) ==
  /\ req[r].pc = "detect"
  /\ req' = [req EXCEPT ![r] =
       [@ EXCEPT !.pc = "prompt",
                 !.document_type = _detect_document_type(req[r].document_text, b).value.val,
                 !.calls = Append(@, Call(detection_prompt(req[r].document_text).kind, b.raises))]]
  /\ UNCHANGED <<server, fs, probe>>

(* Lines 136-142: truncation, then the prompt, built on a classification of its
   own with a model call of its own. *)
Prompt(r, b) ==
  /\ req[r].pc = "prompt"
  /\ LET document_text == truncate(req[r].document_text)
     IN  req' = [req EXCEPT ![r] =
           [@ EXCEPT !.pc = "generate",
                     !.document_text = document_text,
                     !.prompt = _create_analysis_prompt(document_text, b),
                     !.calls = Append(@, Call(detection_prompt(document_text).kind, b.raises))]]
  /\ UNCHANGED <<server, fs, probe>>

(* Lines 146-149 with a second attempt after a failed call: the request stays where
   it is and calls the model again.  A faulty variant, used to show what the count
   of model calls rests on. *)
Generate_again(r, b) ==
  /\ req[r].pc = "generate"
  /\ LET calls == Append(req[r].calls, Call(req[r].prompt.kind, b.raises))
     IN  req' = [req EXCEPT ![r] =
           IF b.raises
           THEN [@ EXCEPT !.calls = calls]
           ELSE IF b.text = <<>>
           THEN [Ended(r, Raises("Exception", "No response received from Google Cloud AI"))
                   EXCEPT !.calls = calls]
           ELSE [@ EXCEPT !.pc = "parse", !.response_text = b.text, !.calls = calls]]
  /\ UNCHANGED <<server, fs, probe>>

(* Lines 146-149: the main model call; an error or an empty reply ends the analysis. *)
Generate(r, b) ==
  /\ req[r].pc = "generate"
  /\ LET calls == Append(req[r].calls, Call(req[r].prompt.kind, b.raises))
     IN  req' = [req EXCEPT ![r] =
           IF b.raises
           THEN [Ended(r, Raises("Exception", "the model call failed")) EXCEPT !.calls = calls]
           ELSE IF b.text = <<>>
           THEN [Ended(r, Raises("Exception", "No response received from Google Cloud AI"))
                   EXCEPT !.calls = calls]
           ELSE [@ EXCEPT !.pc = "parse", !.response_text = b.text, !.calls = calls]]
  /\ UNCHANGED <<server, fs, probe>>

(* Lines 152-164: the reply is parsed and the metadata added; analyze_document
   returns the result, or ends with the exception raised on the way. *)
Parse(r) ==
  /\ req[r].pc = "parse"
  /\ LET outcome == parse_and_inject(req[r].response_text, req[r].document_type,
                                      req[r].document_text)
     IN  req' = [req EXCEPT ![r] =
           IF outcome.kind = "raise" THEN Ended(r, outcome)
           ELSE [@ EXCEPT !.pc = "ended", !.outcome = outcome]]
  /\ UNCHANGED <<server, fs, probe>>

(* The route without its finally block (lines 685-688): the upload stays.  A faulty
   variant, used to show what the cleanup rests on. *)
Finally_absent(r) ==
  /\ req[r].pc = "ended"
  /\ req' = [req EXCEPT ![r] = [Ended(r, req[r].outcome) EXCEPT !.pc = "respond"]]
  /\ UNCHANGED <<server, fs, probe>>

(* Line 687, file_path.exists() in the finally block; the locals of
   analyze_document are gone. *)
Finally(r) ==
  /\ req[r].pc = "ended"
  /\ req' = [req EXCEPT ![r] =
       [Ended(r, req[r].outcome) EXCEPT
          !.pc = IF fs[req[r].file_path] = NoFile THEN "respond" ELSE "unlink"]]
  /\ UNCHANGED <<server, fs, probe>>

(* Line 688, file_path.unlink(): it removes what the path holds, and raises
   FileNotFoundError, which replaces the result, when the path holds nothing. *)
Unlink(r) ==
  /\ req[r].pc = "unlink"
  /\ IF fs[req[r].file_path] = NoFile
     THEN /\ req' = [req EXCEPT ![r] =
                [Ended(r, Raises("FileNotFoundError", "No such file or directory"))
                   EXCEPT !.pc = "respond"]]
          /\ fs' = fs
     ELSE /\ req' = [req EXCEPT ![r].pc = "respond"]
          /\ fs' = [fs EXCEPT ![req[r].file_path] = NoFile]
  /\ UNCHANGED <<server, probe>>

(* Lines 679-683 and 690-694: the HTTP response. *)
Respond(r) ==
  /\ req[r].pc = "respond"
  /\ req' = [req EXCEPT ![r] =
       IF req[r].outcome.kind = "return" THEN Done(Ok200(req[r].outcome.value))
       ELSE Done(Error(500, req[r].outcome.msg))]
  /\ UNCHANGED <<server, fs, probe>>

(* One request r takes its next step, on inputs drawn from the given sets. *)
Step(r, forms, detections, analyses) ==
  \/ \E form \in forms : Receive(r, form)
  \/ Save(r)
  \/ CheckExists(r)
  \/ Extract(r)
  \/ \E b \in detections : Detect(r, b)
  \/ \E b \in detections : Prompt(r, b)
  \/ \E b \in analyses : Generate(r, b)
  \/ Parse(r)
  \/ Finally(r)
  \/ Unlink(r)
  \/ Respond(r)

Boot ==
  \E entry \in {"google_legal_analyzer.py", "main.py"}, available, api_key, model_ok \in BOOLEAN :
     Startup(entry, available, api_key, model_ok)

(* The forms of the concurrent runs: a blank and a short document, under two names. *)
ConcurrentForms ==
  { form \in Forms : /\ form.readable
                     /\ form.filename.stem \in {"a", "b"}
                     /\ form.text \in {<<[c |-> " ", n |-> 2], [c |-> "\n", n |-> 1]>>, Document(2)} }

(* The main-call behaviours of the concurrent runs: an error and a JSON object. *)
ConcurrentAnalysisBehaviours ==
  { ModelRaises, ModelReplies(<<"{", "\"", "a", "\"", ":", "1", "}">>) }

(* The service with NReq requests in flight at once. *)
Next ==
  \/ Boot
  \/ \E r \in Requests :
        Step(r, ConcurrentForms, DetectionBehaviours, ConcurrentAnalysisBehaviours)

Spec == Init /\ [][Next]_vars

(* The service with one request, on every form and every model behaviour. *)
NextSingle ==
  \/ Boot
  \/ Step(1, Forms, DetectionBehaviours, AnalysisBehaviours)

SpecSingle == Init /\ [][NextSingle]_vars

(***************************************************************************)
(* The parser applied on its own (lines 584-627): to a reply as it is, and *)
(* to the same reply wrapped in a code block.                              *)
(***************************************************************************)

(* How many pieces a reply is made of at most. *)
MaxChunks == 4

(* The pieces replies are made of. *)
Chunks ==
  { FENCE, <<"j", "s", "o", "n">>, <<"\n">>, <<" ">>, <<"{">>, <<"}">>,
    <<"\"", "a", "\"", ":">>, <<"1">>, <<"[">>, <<"]">> }

(* The replies of at most n pieces. *)
RECURSIVE Replies(_)
Replies(n) ==
  IF n = 0 THEN {<<>>}
  ELSE With(Replies(n - 1), LAMBDA shorter :
         shorter \cup {r \o c : r \in shorter, c \in Chunks})

(* The language tags of an opening line: none, and json. *)
Tags == {<<>>, <<"j", "s", "o", "n">>}

(* reply inside a code block: the opening line with its tag, reply, the closing line. *)
Fenced(tag, reply) == FENCE \o tag \o <<"\n">> \o reply \o <<"\n">> \o FENCE

(* Replies longer than the 1000 characters line 620 keeps: an opening brace and a
   thousand digits, as it is and after a blank. *)
LongReply == <<"{">> \o [i \in 1..1000 |-> "1"]
LongReplies == {LongReply, <<" ">> \o LongReply}

InitParse ==
  /\ AtRest
  /\ probe \in {[reply |-> r, tag |-> <<>>, plain |-> NoOutcome, fenced |-> NoOutcome] :
                  r \in Replies(MaxChunks) \cup LongReplies}

(* _parse_ai_response(reply) *)
ParseReply ==
  /\ probe.plain = NoOutcome
  /\ probe' = [probe EXCEPT !.plain = _parse_ai_response(probe.reply)]
  /\ UNCHANGED <<server, fs, req>>

(* _parse_ai_response on the reply inside a code block *)
ParseFenced(tag) ==
  /\ probe.fenced = NoOutcome
  /\ probe' = [probe EXCEPT !.tag = tag,
                            !.fenced = _parse_ai_response(Fenced(tag, probe.reply))]
  /\ UNCHANGED <<server, fs, req>>

NextParse ==
  \/ ParseReply
  \/ \E tag \in Tags : ParseFenced(tag)

SpecParse == InitParse /\ [][NextParse]_vars

(***************************************************************************)
(* The classifier applied on its own (lines 170-236).                      *)
(***************************************************************************)

(* The closed set of labels. *)
Labels == {valid_types[i] : i \in 1..Len(valid_types)}

(* The texts classified: the empty one, a short one, one longer than the 4000
   characters the detection prompt quotes. *)
ClassifyTexts == {<<>>, Document(2), Document(4001)}

(* What the model answers: each label as it is, in capitals, and with whitespace
   around it; nothing; and answers that are no label. *)
ClassifyReplies ==
  Labels
  \cup {upper(l) : l \in Labels}
  \cup {<<" ">> \o l \o <<"\n">> : l \in Labels}
  \cup { <<>>, <<" ">>, <<"j", "s", "o", "n">>, <<"n", "d", "a", ".">>,
         <<"n", "d", "a", " ", "w", "i", "l", "l">>, <<"l", "e", "a", "s", "e", "s">> }

ClassifyBehaviours == {ModelRaises} \cup {ModelReplies(t) : t \in ClassifyReplies}

InitClassify ==
  /\ AtRest
  /\ probe \in {[document_text |-> t, b |-> b, calls |-> <<>>, result |-> NoOutcome] :
                  t \in ClassifyTexts, b \in ClassifyBehaviours}

(* _detect_document_type(document_text), with its one model call. *)
Classify ==
  /\ probe.result = NoOutcome
  /\ probe' = [probe EXCEPT
       !.calls = Append(@, detection_prompt(probe.document_text)),
       !.result = _detect_document_type(probe.document_text, probe.b)]
  /\ UNCHANGED <<server, fs, req>>

NextClassify == Classify

SpecClassify == InitClassify /\ [][NextClassify]_vars

(***************************************************************************)
(* The template registry applied on its own (lines 238-315), lookup after  *)
(* lookup.                                                                 *)
(***************************************************************************)

(* How many lookups are made in a row. *)
MaxCalls == 3

(* The tags looked up: the labels, and tags that are no label. *)
LookupTags == Labels \cup {<<>>, <<"N", "D", "A">>, <<"j", "s", "o", "n">>}

InitTemplates ==
  /\ AtRest
  /\ probe = [history |-> <<>>]

(* _get_document_template(tag) *)
Lookup(tag) ==
  /\ Len(probe.history) < MaxCalls
  /\ probe' = [probe EXCEPT !.history =
                 Append(@, [tag |-> tag, template |-> _get_document_template(tag)])]
  /\ UNCHANGED <<server, fs, req>>

NextTemplates == \E tag \in LookupTags : Lookup(tag)

SpecTemplates == InitTemplates /\ [][NextTemplates]_vars

(***************************************************************************)
(* The prompt synthesizer applied on its own (lines 317-582).              *)
(***************************************************************************)

InitPrompt ==
  /\ AtRest
  /\ probe \in {[document_text |-> t, b |-> b, calls |-> <<>>, prompt |-> NoPrompt] :
                  t \in ClassifyTexts \ {<<>>}, b \in ClassifyBehaviours}

(* _create_analysis_prompt(document_text), with the model call of its classification. *)
Synthesize ==
  /\ probe.prompt = NoPrompt
  /\ probe' = [probe EXCEPT
       !.calls = Append(@, detection_prompt(probe.document_text)),
       !.prompt = _create_analysis_prompt(probe.document_text, probe.b)]
  /\ UNCHANGED <<server, fs, req>>

NextPrompt == Synthesize

SpecPrompt == InitPrompt /\ [][NextPrompt]_vars

(***************************************************************************)
(* What the functions and the service are checked for.                     *)
(***************************************************************************)

(* The fixed shape of lines 615-627, as far as a reader of the result sees it: the
   six keys, the error text, and details that are not empty. *)
IsFallback(v) ==
  /\ v.kind = "dict"
  /\ DOMAIN v.val = {<<"documentType">>, <<"summary">>, <<"error">>, <<"errorDetails">>,
                     <<"rawResponse">>, <<"recommendations">>}
  /\ v.val[<<"error">>] = StrVal(<<"JSON parsing failed">>)
  /\ v.val[<<"errorDetails">>].kind = "str"
  /\ v.val[<<"errorDetails">>].val # <<>>

(* What lines 588-604 make of a reply: nothing that json.loads accepts. *)
NotJSON(reply) ==
  With(unfence(reply), LAMBDA u : u.kind = "raise" \/ ~json_loads(u.value.val).ok)

(* How a call of the parser ends: with an exception, with the fallback, or with the
   parsed value. *)
OutcomeKind(o) ==
  IF o.kind = "raise" THEN "raise"
  ELSE IF IsFallback(o.value) THEN "fallback"
  ELSE "parsed"

(* result["analysisMetadata"]["documentLength"] *)
documentLength(result) == result.val[<<"analysisMetadata">>].val[<<"documentLength">>].val

(* len of the text the extractor gives for request r's own upload. *)
ExtractedLength(r) ==
  textLen(extract_text_from_file(req[r].file_path,
            [by |-> r, readable |-> req[r].upload.readable, text |-> req[r].upload.text]).value)

(* The file request r saved, as long as nobody has touched it. *)
OwnFile(r) == [by |-> r, readable |-> req[r].upload.readable, text |-> req[r].upload.text]

(* The text at request r's path is read, and is blank. *)
ReadsBlank(r) ==
  With(extract_text_from_file(req[r].file_path, fs[req[r].file_path]), LAMBDA extracted :
    extracted.kind = "return" /\ textStrip(extracted.value) = <<>>)

(* x occurs in seq exactly once. *)
Once(x, seq) == Cardinality({k \in 1..Len(seq) : seq[k] = x}) = 1

(* C1: classification is total.  For every text (the empty one included) and every
   behaviour of the model (any reply, or an error), _detect_document_type returns one
   of the 18 labels and never raises; a reply that, trimmed and lower-cased, is no
   label gives general. *)
C1_ClassificationTotal ==
  probe.result # NoOutcome =>
    /\ probe.result.kind = "return"
    /\ probe.result.value.kind = "str"
    /\ probe.result.value.val \in Labels
    /\ Cardinality(Labels) = 18
    /\ (~probe.b.raises /\ lower(strip(probe.b.text)) \notin Labels
          => probe.result.value.val = general)

(* C1's case: the empty text is classified while the model call fails. *)
C1_Witness ==
  /\ probe.result # NoOutcome
  /\ probe.document_text = <<>>
  /\ probe.b.raises
  /\ probe.result = Returns(StrVal(general))

(* C2: for every reply that is not valid JSON after the fence is stripped (a
   one-line reply that starts with the fence and a reply without closing fence
   included), _parse_ai_response does not raise and returns the fallback shape with
   error "JSON parsing failed" and errorDetails that are not empty. *)
C2_InvalidReplyFallsBack ==
  probe.plain # NoOutcome /\ NotJSON(probe.reply) =>
    /\ probe.plain.kind = "return"
    /\ IsFallback(probe.plain.value)

(* C2's failing case: the reply is the fence alone, and the parser raises. *)
C2_Witness ==
  /\ probe.reply = FENCE
  /\ probe.plain # NoOutcome
  /\ probe.plain.kind = "raise"
  /\ probe.plain.exc = "IndexError"

(* C3: for every reply r, parsing r inside a code block (the opening line with or
   without the json tag, r, the closing line) ends as parsing r itself does: with the
   same parsed value when r is valid JSON, and in the same way otherwise. *)
C3_FencedParsesAlike ==
  probe.plain # NoOutcome /\ probe.fenced # NoOutcome =>
    IF OutcomeKind(probe.plain) = "parsed" THEN probe.fenced = probe.plain
    ELSE OutcomeKind(probe.fenced) = OutcomeKind(probe.plain)

(* C3's failing case: the reply is a line json and a line {}; on its own it gives the
   fallback, inside a code block it parses. *)
C3_Witness ==
  /\ probe.reply = <<"j", "s", "o", "n", "\n", "{", "}">>
  /\ probe.plain # NoOutcome /\ probe.fenced # NoOutcome
  /\ OutcomeKind(probe.plain) = "fallback"
  /\ probe.fenced = Returns(DictVal(EmptyDict))

(* C4, as the specification states it: in every result analyze_document returns,
   documentLength is the length of the extracted text when that is below max_chars,
   and max_chars plus the length of the marker when it is max_chars or more. *)
C4_LengthFromThreshold ==
  \A r \in Requests :
    req[r].pc = "ended" /\ req[r].outcome.kind = "return" =>
      documentLength(req[r].outcome.value) =
        IF ExtractedLength(r) < max_chars THEN ExtractedLength(r)
        ELSE max_chars + textLen(TRUNCATION_MARKER)

(* C4, as the code has it: in every result analyze_document returns, documentLength
   is the length of the extracted text when that is at most max_chars, and max_chars
   plus the length of the marker when it is more. *)
C4_LengthAboveThreshold ==
  \A r \in Requests :
    req[r].pc = "ended" /\ req[r].outcome.kind = "return" =>
      documentLength(req[r].outcome.value) =
        IF ExtractedLength(r) <= max_chars THEN ExtractedLength(r)
        ELSE max_chars + textLen(TRUNCATION_MARKER)

(* C4's case: a text of exactly max_chars characters has been analysed, and its
   result gives max_chars as the length. *)
C4_Witness ==
  \E r \in Requests :
    /\ req[r].pc = "ended" /\ req[r].outcome.kind = "return"
    /\ ExtractedLength(r) = max_chars
    /\ documentLength(req[r].outcome.value) = max_chars

(* C5: when the file does not exist, or the extracted text is empty or blank,
   analyze_document fails there and then, and no model call has been made or is made
   in that call. *)
C5_FailsBeforeModel ==
  [][\A r \in Requests :
       /\ \/ req[r].pc = "exists" /\ fs[req[r].file_path] = NoFile
          \/ req[r].pc = "extract" /\ ReadsBlank(r)
       /\ req'[r] # req[r]
       => /\ req'[r].pc = "ended"
          /\ req'[r].outcome.kind = "raise"
          /\ req[r].calls = <<>>
          /\ req'[r].calls = <<>>]_vars

(* C5's cases: one request has failed on a blank text and has answered; its cleanup
   has removed the file of another request, which has failed on the missing file;
   neither has made a model call. *)
C5_Witness ==
  \E r, s \in Requests :
    /\ req[r].pc = "ended"
    /\ req[r].outcome = Raises("FileNotFoundError", "File not found")
    /\ req[r].calls = <<>>
    /\ req[s].pc = "done"
    /\ req[s].response = Error(500, "No text could be extracted from the document")

(* C6: when the main model call raises, analyze_document ends with that error, the
   HTTP reply carries an error and no analysis, and once the request has finished no
   file it stored is left. *)
C6_ModelErrorCleansUp ==
  \A r \in Requests :
    /\ req[r].pc \in {"ended", "unlink", "respond"} /\ Len(req[r].calls) = 3
         /\ req[r].outcome.msg = "the model call failed"
       => req[r].outcome.kind = "raise" /\ req[r].outcome.value = NoneVal
    /\ req[r].pc = "done" /\ req[r].response.error = "the model call failed"
       => /\ req[r].response.status = 500
          /\ req[r].response.analysis = NoneVal
          /\ \A f \in FileNames : fs[f].by # r

(* C6's case: a request whose main model call raised has finished with status 500. *)
C6_Witness ==
  \E r \in Requests :
    /\ req[r].pc = "done"
    /\ req[r].response = Error(500, "the model call failed")
    /\ \A f \in FileNames : fs[f] = NoFile

(* C7: for each of the 18 document types, the fields of the template that
   _get_document_template returns hold documentType, summary, risks and
   recommendations, and hold no name twice. *)
C7_CommonFields ==
  \A i \in 1..Len(probe.history) :
    probe.history[i].tag \in Labels =>
      /\ \A field \in {"documentType", "summary", "risks", "recommendations"} :
           Once(field, probe.history[i].template.fields)
      /\ \A k \in 1..Len(probe.history[i].template.fields) :
           Once(probe.history[i].template.fields[k], probe.history[i].template.fields)

(* C7's failing case: the template of judgment has been looked up, and risks is not
   among its fields. *)
C7_Witness ==
  \E i \in 1..Len(probe.history) :
    /\ probe.history[i].tag = judgment
    /\ ~InSeq("risks", probe.history[i].template.fields)

(* C8: the lookup is total and deterministic.  Every tag, label or not, gets a
   template; a tag that is no label gets the template of general; and two lookups of
   one tag give equal templates, whatever was looked up in between. *)
C8_LookupTotal ==
  \A i \in 1..Len(probe.history) :
    /\ DOMAIN probe.history[i].template = {"fields", "focus"}
    /\ probe.history[i].template.fields # <<>>
    /\ (probe.history[i].tag \notin Labels
          => probe.history[i].template = templates[general])
    /\ \A j \in 1..Len(probe.history) :
         probe.history[j].tag = probe.history[i].tag
           => probe.history[j].template = probe.history[i].template

(* C8's case: a tag that is no label is looked up, then a label, then the first tag
   again, which gets the template of general both times. *)
C8_Witness ==
  /\ Len(probe.history) = 3
  /\ probe.history[1].tag = <<"N", "D", "A">>
  /\ probe.history[2].tag = nda
  /\ probe.history[3].tag = <<"N", "D", "A">>
  /\ probe.history[1].template = templates[general]
  /\ probe.history[3].template = templates[general]
  /\ probe.history[2].template # templates[general]

(* C9: the schema block of a prompt lists the fields of the template of the prompt's
   document type, each once, in the template's order, with a comma after every field
   but the last. *)
C9_SchemaOrder ==
  probe.prompt # NoPrompt =>
    LET schema == probe.prompt.schema
        fields == templates[probe.prompt.document_type].fields
    IN  /\ Len(schema) = 2 * Len(fields) - 1
        /\ \A k \in 1..Len(fields) :
             /\ schema[2 * k - 1].tok = "field"
             /\ schema[2 * k - 1].field = fields[k]
             /\ (k < Len(fields) => schema[2 * k] = SchemaComma)

(* C9's case: the prompt of a will has been built: its fields in order, commas
   between them, a field at the end. *)
C9_Witness ==
  /\ probe.prompt # NoPrompt
  /\ probe.prompt.document_type = will
  /\ Len(probe.prompt.schema) = 2 * Len(templates[will].fields) - 1
  /\ probe.prompt.schema[2] = SchemaComma
  /\ probe.prompt.schema[Len(probe.prompt.schema)].field = "recommendations"

(* C10: concurrent requests share no state.  From the moment a request has saved its
   upload until its analysis has ended, the file at its path is the one it saved; and
   when the request has finished, no file it stored is left. *)
C10_RequestsIsolated ==
  \A r \in Requests :
    /\ req[r].pc \in {"exists", "extract", "detect", "prompt", "generate", "parse"}
         => fs[req[r].file_path] = OwnFile(r)
    /\ req[r].pc = "done" => \A f \in FileNames : fs[f].by # r

(* C10's failing case: a request about to read its file finds another request's
   upload, with another text, at its path. *)
C10_Witness ==
  \E r \in Requests :
    /\ req[r].pc = "extract"
    /\ fs[req[r].file_path] # NoFile
    /\ fs[req[r].file_path].by # r
    /\ fs[req[r].file_path].text # req[r].upload.text

(* result["detectedDocumentType"] *)
detectedDocumentType(result) == result.val[<<"detectedDocumentType">>].val

(* What the extractor makes of request r's own upload. *)
OwnExtraction(r) == extract_text_from_file(req[r].file_path, OwnFile(r))

(* Both classification calls of request r raised, and its main call gave a reply that
   is not empty. *)
OnlyClassificationFailed(r) ==
  /\ req[r].pc = "ended"
  /\ Len(req[r].calls) = 3
  /\ req[r].calls[1].raised /\ req[r].calls[2].raised /\ ~req[r].calls[3].raised
  /\ req[r].outcome # Raises("Exception", "No response received from Google Cloud AI")

(* C11: when the classification calls raise and the main call gives a reply that is
   not empty, analyze_document returns a result whose detectedDocumentType is general;
   and it returns a result only when the extraction and the main call succeeded. *)
C11_ClassificationAbsorbed ==
  \A r \in Requests :
    /\ OnlyClassificationFailed(r)
         => /\ req[r].outcome.kind = "return"
            /\ detectedDocumentType(req[r].outcome.value) = general
    /\ req[r].pc = "ended" /\ req[r].outcome.kind = "return"
         => /\ OwnExtraction(r).kind = "return"
            /\ Len(req[r].calls) = 3
            /\ ~req[r].calls[3].raised

(* C11's failing case: the classification calls raised, the main call replied with a
   JSON array, and analyze_document ends with TypeError. *)
C11_Witness ==
  \E r \in Requests :
    /\ OnlyClassificationFailed(r)
    /\ req[r].outcome.kind = "raise"
    /\ req[r].outcome.exc = "TypeError"

(* The messages of the errors that are the client's: lines 78, 121 and 129. *)
InputProblems ==
  {"Unsupported file format", "File not found",
   "No text could be extracted from the document"}

(* C12: a finished request that failed on an input problem (unsupported format, blank
   document, missing file) has a 4xx status, one that failed on the model call has a
   5xx status, and no failed request has status 200. *)
C12_StatusByClass ==
  \A r \in Requests :
    req[r].pc = "done" =>
      /\ req[r].response.error \in InputProblems
           => req[r].response.status \in 400..499
      /\ req[r].response.error = "the model call failed"
           => req[r].response.status \in 500..599
      /\ req[r].response.error # "" => req[r].response.status # 200

(* C12's failing case: an upload of an unsupported format is answered with 500. *)
C12_Witness ==
  \E r \in Requests :
    /\ req[r].pc = "done"
    /\ req[r].response = Error(500, "Unsupported file format")

(* A plain string, and an ordered sequence of plain strings. *)
IsString(v) == v.kind = "str"
IsStringList(v) == v.kind = "list" /\ \A k \in 1..Len(v.val) : IsString(v.val[k])

(* C13: the result returned on a parse failure is a valid AnalysisResult: its keys
   are documentType, summary, error, errorDetails, rawResponse and recommendations,
   every value is a string or a sequence of strings, and recommendations is a
   sequence of one item. *)
C13_FallbackValid ==
  probe.plain # NoOutcome /\ probe.plain.kind = "return" /\ NotJSON(probe.reply) =>
    /\ probe.plain.value.kind = "dict"
    /\ DOMAIN probe.plain.value.val =
         {<<"documentType">>, <<"summary">>, <<"error">>, <<"errorDetails">>,
          <<"rawResponse">>, <<"recommendations">>}
    /\ \A key \in DOMAIN probe.plain.value.val :
         IsString(probe.plain.value.val[key]) \/ IsStringList(probe.plain.value.val[key])
    /\ probe.plain.value.val[<<"recommendations">>].kind = "list"
    /\ Len(probe.plain.value.val[<<"recommendations">>].val) = 1

(* C13's failing case: a reply cut off in the middle of an object has given the
   fallback, and the one item of its recommendations is a dict. *)
C13_Witness ==
  /\ probe.reply = <<"{", "\"", "a", "\"", ":">>
  /\ probe.plain # NoOutcome /\ probe.plain.kind = "return"
  /\ Len(probe.plain.value.val[<<"recommendations">>].val) = 1
  /\ probe.plain.value.val[<<"recommendations">>].val[1].kind = "dict"

(* C14: when the API key is absent at startup, no analyzer is constructed and the
   process does not serve requests, whichever entry point started it. *)
C14_NoKeyNoService ==
  server.state # "off" /\ server.api_key = "absent" =>
    /\ server.analyzer = "none"
    /\ server.state = "exited"

(* C14's failing case: started through main.py without the API key, the process
   serves, and has answered a request with the 500 of lines 654-657. *)
C14_Witness ==
  /\ server.entry = "main.py"
  /\ server.api_key = "absent"
  /\ server.analyzer = "none"
  /\ server.state = "serving"
  /\ \E r \in Requests :
       /\ req[r].pc = "done"
       /\ req[r].response.status = 500

(* result["analysisMetadata"]["analysisType"] *)
analysisType(result) == result.val[<<"analysisMetadata">>].val[<<"analysisType">>].val

(* C15: in every completed analysis, the document type the prompt was built for is
   the detectedDocumentType of the result and the prefix of its analysisType,
   whatever the model answers to the two classification calls. *)
C15_OneDocumentType ==
  \A r \in Requests :
    req[r].pc = "ended" /\ req[r].outcome.kind = "return" =>
      /\ detectedDocumentType(req[r].outcome.value) = req[r].prompt.document_type
      /\ analysisType(req[r].outcome.value) = req[r].prompt.document_type \o <<"_specific">>

(* C15's failing case: the first classification call raised and the second answered
   NDA; the prompt is that of an nda, the result says general. *)
C15_Witness ==
  \E r \in Requests :
    /\ req[r].pc = "ended" /\ req[r].outcome.kind = "return"
    /\ req[r].calls[1].raised /\ ~req[r].calls[2].raised
    /\ req[r].prompt.document_type = nda
    /\ req[r].prompt.focus = templates[nda].focus
    /\ detectedDocumentType(req[r].outcome.value) = general
    /\ analysisType(req[r].outcome.value) = general \o <<"_specific">>

(* C16: in the fallback result, rawResponse is made from the reply as the parser
   received it, before strip and before the code block markers are removed: the
   reply itself when it has at most 1000 characters, its first 1000 characters and
   the ellipsis otherwise. *)
C16_RawFromOriginal ==
  /\ probe.plain # NoOutcome /\ OutcomeKind(probe.plain) = "fallback" =>
       probe.plain.value.val[<<"rawResponse">>] = StrVal(rawResponse(probe.reply))
  /\ probe.fenced # NoOutcome /\ OutcomeKind(probe.fenced) = "fallback" =>
       probe.fenced.value.val[<<"rawResponse">>] =
         StrVal(rawResponse(Fenced(probe.tag, probe.reply)))

(* C16's failing case: the reply of 1002 characters that begins with a blank; the
   fallback keeps the 1000 characters after the blank. *)
C16_Witness ==
  /\ probe.reply = <<" ">> \o LongReply
  /\ probe.plain # NoOutcome /\ OutcomeKind(probe.plain) = "fallback"
  /\ probe.plain.value.val[<<"rawResponse">>] =
       StrVal(SubSeq(LongReply, 1, 1000) \o <<"...">>)
  /\ probe.plain.value.val[<<"rawResponse">>] # StrVal(rawResponse(probe.reply))

(* The fields the prompt asks for as lists (lines 534 and 536). *)
ListFields ==
  {"risks", "recommendations", "obligations", "keyTerms", "statements", "facts",
   "precedents", "legalPrinciples"}

(* enhanced_descriptions.get(document_type, {}), as <<field, hint>> pairs. *)
TypeHints(document_type) ==
  IF document_type \in DOMAIN enhanced_descriptions
  THEN enhanced_descriptions[document_type] ELSE <<>>

(* field in enhanced_descriptions[document_type] *)
HasHint(document_type, field) ==
  \E i \in 1..Len(TypeHints(document_type)) : TypeHints(document_type)[i][1] = field

(* enhanced_descriptions[document_type][field] *)
HintOf(document_type, field) ==
  LET hints == TypeHints(document_type)
  IN  StrVal(<<hints[CHOOSE i \in 1..Len(hints) : hints[i][1] = field][2]>>)

(* The description of a field no hint is written for. *)
GenericHint(field) == StrVal(<<"Relevant ", field, " information for this document type">>)

(* The descriptions lines 329-332 give documentType and summary. *)
CommonHint(field, document_type) ==
  IF field = "documentType"
  THEN StrVal(<<"Specific type of ">> \o document_type \o <<" document">>)
  ELSE StrVal(<<"Comprehensive summary focusing on ", templates[document_type].focus,
                " with plain language explanation">>)

(* C17, as the specification states it: a field of the prompt's schema is asked for
   as a list of three items exactly when it is risks, recommendations, obligations,
   keyTerms, statements, facts, precedents or legalPrinciples; every other field is
   asked for as a string, with the hint of the document type for that field, or
   with the generic hint when the type has no hint for it. *)
C17_HintOrGeneric ==
  probe.prompt # NoPrompt =>
    \A k \in 1..Len(probe.prompt.schema) :
      LET piece == probe.prompt.schema[k]
      IN  piece.tok = "field" =>
            /\ piece.shape = "array" <=> piece.field \in ListFields
            /\ piece.field \notin ListFields =>
                 piece = SchemaScalar(piece.field,
                           IF HasHint(probe.prompt.document_type, piece.field)
                           THEN HintOf(probe.prompt.document_type, piece.field)
                           ELSE GenericHint(piece.field))

(* C17, as the code has it: the lists are as stated; a field asked for as a string
   has the hint of the document type for it; where the type has none, documentType
   and summary have the descriptions of lines 329-332 and any other field has the
   generic hint. *)
C17_HintCommonOrGeneric ==
  probe.prompt # NoPrompt =>
    \A k \in 1..Len(probe.prompt.schema) :
      LET piece == probe.prompt.schema[k]
      IN  piece.tok = "field" =>
            /\ piece.shape = "array" <=> piece.field \in ListFields
            /\ piece.field \notin ListFields =>
                 piece = SchemaScalar(piece.field,
                           IF HasHint(probe.prompt.document_type, piece.field)
                           THEN HintOf(probe.prompt.document_type, piece.field)
                           ELSE IF piece.field \in {"documentType", "summary"}
                           THEN CommonHint(piece.field, probe.prompt.document_type)
                           ELSE GenericHint(piece.field))

(* C17's case: the prompt of a contract has been built.  documentType is a string
   with its own description, parties a string with the generic hint, keyTerms a
   list although the type has a hint for it, deliverables a string with the hint. *)
C17_Witness ==
  /\ probe.prompt # NoPrompt
  /\ probe.prompt.document_type = contract
  /\ probe.prompt.schema[1] =
       SchemaScalar("documentType", StrVal(<<"Specific type of ">> \o contract \o <<" document">>))
  /\ \E k \in 1..Len(probe.prompt.schema) :
       probe.prompt.schema[k] = SchemaScalar("parties", GenericHint("parties"))
  /\ \E k \in 1..Len(probe.prompt.schema) :
       probe.prompt.schema[k] = SchemaArray("keyTerms", "practical details")
  /\ \E k \in 1..Len(probe.prompt.schema) :
       probe.prompt.schema[k] =
         SchemaScalar("deliverables", StrVal(<<"Specific items/services to be provided">>))

(* The model calls of kind k among calls. *)
CallsOf(calls, k) == {i \in 1..Len(calls) : calls[i].kind = k}

(* after is before and one more call, of kind k. *)
OneMore(before, after, k) ==
  /\ Len(after) = Len(before) + 1
  /\ SubSeq(after, 1, Len(before)) = before
  /\ after[Len(after)].kind = k

(* C18: nothing is tried twice.  Each of the two classifications of a request makes
   one model call, whether the call succeeds or fails; the analysis makes the main
   model call at most once; no other step calls the model, and after a failed main
   call the request makes no further call. *)
C18_NoRetries ==
  [][\A r \in Requests :
       req'[r] # req[r] /\ req'[r].pc # "done" =>
         /\ IF req[r].pc \in {"detect", "prompt"}
            THEN OneMore(req[r].calls, req'[r].calls, "detection")
            ELSE IF req[r].pc = "generate"
            THEN OneMore(req[r].calls, req'[r].calls, "analysis")
            ELSE req'[r].calls = req[r].calls
         /\ Cardinality(CallsOf(req'[r].calls, "analysis")) <= 1
         /\ Cardinality(CallsOf(req'[r].calls, "detection")) <= 2
         /\ \A i \in CallsOf(req'[r].calls, "analysis") :
              req'[r].calls[i].raised => i = Len(req'[r].calls) /\ req'[r].pc # "generate"
    ]_vars

(* C18's case: both classification calls and the main call failed, the request is
   about to answer, and three calls is all it made. *)
C18_Witness ==
  \E r \in Requests :
    /\ req[r].pc = "respond"
    /\ req[r].outcome = Raises("Exception", "the model call failed")
    /\ req[r].calls = <<Call("detection", TRUE), Call("detection", TRUE), Call("analysis", TRUE)>>

(* The main model call of request r gave a reply that is not empty, and
   analyze_document has ended. *)
MainReplied(r) ==
  /\ req[r].pc = "ended"
  /\ CallsOf(req[r].calls, "analysis") # {}
  /\ \A i \in CallsOf(req[r].calls, "analysis") : ~req[r].calls[i].raised
  /\ req[r].outcome # Raises("Exception", "No response received from Google Cloud AI")

(* C19: whatever the main model call replies, if the reply is not empty the parser
   gives a mapping, the metadata is added to it, and analyze_document returns a
   result that has detectedDocumentType and analysisMetadata. *)
C19_ReplyGivesResult ==
  \A r \in Requests :
    MainReplied(r) =>
      /\ req[r].outcome.kind = "return"
      /\ req[r].outcome.value.kind = "dict"
      /\ {<<"detectedDocumentType">>, <<"analysisMetadata">>}
           \subseteq DOMAIN req[r].outcome.value.val

(* C19's failing case: the main call replied with the JSON array [1]; the parser
   returned a list, and analyze_document ends with TypeError at line 155. *)
C19_Witness ==
  \E r \in Requests :
    /\ MainReplied(r)
    /\ _parse_ai_response(<<"[", "1", "]">>) =
         Returns(ListVal(<<IntVal(1)>>))
    /\ req[r].outcome = Raises("TypeError", "object does not support item assignment")
=============================================================================
